---- MODULE Spec2Model ----
(***************************************************************************)
(* Model of src/src/useHttpRequest.js: the module-level response cache and *)
(* in-flight registry, and the per-instance state of the useHttpRequest    *)
(* hook (data, error, isLoading, controller, timeoutRef, didSetInFlight).  *)
(*                                                                         *)
(* One JavaScript task is one action.  A promise that is rejected by       *)
(* controller.abort() runs its reactions in the microtasks that follow the *)
(* task that called abort(), so the reactions are the tail of that action. *)
(***************************************************************************)
EXTENDS Integers, Sequences, FiniteSets, TLC

\* ---- bounds of the model ----
NumHooks == 2
NumUrls == 3
MaxRequests == 3
\* the number of operations the consumers perform (mount, refetch, input
\* change, unmount, invalidateURL, clearCache)
MaxOps == 4
LiveOps == 3

\* MAX_CACHE_SIZE is 100 in the source; it is scaled down so that the
\* eviction branch of runFetch is exercised with NumUrls distinct URLs.
MAX_CACHE_SIZE == 2

Hooks == 1..NumHooks
Urls == 1..NumUrls
ReqIds == 1..MaxRequests

\* url values: 0 is the empty string (falsy, line 37), 1..NumUrls are URLs
EmptyUrl == 0
Methods == {"GET", "POST"}
\* options.debounce: 0 (falsy, the default) or a positive delay
DebounceMs == 500
Debounces == {0, DebounceMs}

\* data values: Null is the initial useState(null); a response body is
\* either Falsy (JSON 0, false, "" or null) or truthy, and the truthy body
\* of request r is written r so that the producing call can be told apart.
Null == -1
Falsy == 0
NoError == "null"
HttpError == "HTTP error! status: 500"
AbortMsg == "The operation was aborted."

VARIABLES cache, inFlightMap, hooks, requests, succeeded, invalid, lastExec,
          insertedAt, ops

vars == <<cache, inFlightMap, hooks, requests, succeeded, invalid, lastExec,
          insertedAt, ops>>

\* ---- records ----
IdleHook == [status |-> "idle", url |-> EmptyUrl, method |-> "GET",
             debounce |-> 0, data |-> Null, error |-> NoError,
             isLoading |-> TRUE, controller |-> 0, timeoutRef |-> 0,
             didSetInFlight |-> FALSE, lateSet |-> FALSE]

FreeRequest == [state |-> "free", url |-> EmptyUrl, method |-> "GET",
                owner |-> 0, waiters |-> {}, aborted |-> FALSE,
                during |-> {}, stranded |-> {}]

\* the outcome a fetchPromise settles with
OkOutcome(v) == [name |-> "ok", val |-> v, msg |-> NoError]
ErrorOutcome(m) == [name |-> "Error", val |-> Null, msg |-> m]
AbortOutcome == [name |-> "AbortError", val |-> Null, msg |-> AbortMsg]

\* the program state handled as one value by the operators below
State == [cache |-> cache, inFlightMap |-> inFlightMap,
          hooks |-> hooks, requests |-> requests]

\* ---- React state setters (no-ops on an instance that is not mounted) ----
SetData(h, v) ==
  IF h.status = "mounted" THEN [h EXCEPT !.data = v]
  ELSE [h EXCEPT !.lateSet = TRUE]

SetError(h, e) ==
  IF h.status = "mounted" THEN [h EXCEPT !.error = e]
  ELSE [h EXCEPT !.lateSet = TRUE]

SetIsLoading(h, b) ==
  IF h.status = "mounted" THEN [h EXCEPT !.isLoading = b]
  ELSE [h EXCEPT !.lateSet = TRUE]

\* ---- the cache: a Map, kept as the sequence of its entries in
\* insertion order ----
CacheKeys(c) == {c[k].url : k \in 1..Len(c)}

CacheHas(c, u) == u \in CacheKeys(c)

CacheGet(c, u) == LET k == CHOOSE k \in 1..Len(c) : c[k].url = u IN c[k].val

CacheDelete(c, u) == SelectSeq(c, LAMBDA e : e.url # u)

\* Map.set: an existing key keeps its position, a new key goes last
CacheSet(c, u, v) ==
  IF CacheHas(c, u)
  THEN [k \in 1..Len(c) |-> IF c[k].url = u THEN [url |-> u, val |-> v] ELSE c[k]]
  ELSE Append(c, [url |-> u, val |-> v])

\* the eviction that deletes the key set last
EvictIfFull_Newest(c) ==
  IF Len(c) >= MAX_CACHE_SIZE THEN CacheDelete(c, c[Len(c)].url) ELSE c

\* the eviction with > in place of >=
EvictIfFull_OffByOne(c) ==
  IF Len(c) > MAX_CACHE_SIZE THEN CacheDelete(c, c[1].url) ELSE c

\* lines 96-99: at capacity the first key of the Map is deleted
EvictIfFull(c) ==
  IF Len(c) >= MAX_CACHE_SIZE THEN CacheDelete(c, c[1].url) ELSE c

\* lines 94-103: the .then that commits a result to the cache
CommitResult(c, u, shouldCache, result) ==
  IF shouldCache /\ result # Falsy /\ result # Null
  THEN CacheSet(EvictIfFull(c), u, result)
  ELSE c


\* ---- requests: one per AbortController created at line 75 ----
\* the next unused request id
NextId(reqs) == 1 + Cardinality({r \in ReqIds : reqs[r].state # "free"})

Unsettled(q) == q.state \in {"delayed", "inflight"}

Transported(q) == q.state \in {"inflight", "ok", "failed", "aborted"}

\* the originator's continuation without the setIsLoading(false) of line 118
OwnerSettle_NoFinally(h, out) ==
  IF out.name = "ok" THEN SetData(h, out.val)
  ELSE IF out.name # "AbortError" THEN SetError(h, out.msg)
  ELSE h

\* lines 110-120: the originator's await, catch and finally
OwnerSettle(h, out) ==
  LET h1 == IF out.name = "ok" THEN SetData(h, out.val)
            ELSE IF out.name # "AbortError" THEN SetError(h, out.msg)
            ELSE h
  IN SetIsLoading(h1, FALSE)

\* the attached instance's catch without the AbortError test of line 69
WaiterSettle_NoAbortTest(h, out) ==
  LET h1 == IF out.name = "ok" THEN SetError(SetData(h, out.val), NoError)
            ELSE SetError(h, out.msg)
  IN SetIsLoading(h1, FALSE)

\* lines 62-71: the reactions of an instance attached to the pending promise
WaiterSettle(h, out) ==
  LET h1 == IF out.name = "ok" THEN SetError(SetData(h, out.val), NoError)
            ELSE IF out.name # "AbortError" THEN SetError(h, out.msg)
            ELSE h
  IN SetIsLoading(h1, FALSE)

\* line 119: the finally of runFetch removes whatever entry the URL has
FinallyDelete(m, q) ==
  IF q.method = "GET" /\ q.url # EmptyUrl THEN [m EXCEPT ![q.url] = 0] ELSE m

\* the instances left waiting on a call that its originator cancelled
Stranded(s, r) ==
  {j \in s.requests[r].waiters \ {s.requests[r].owner} :
      s.hooks[j].status = "mounted" /\ s.hooks[j].url = s.requests[r].url
      /\ s.hooks[j].method = "GET"}

\* Settlement of fetchPromise r with outcome out: the cache commit (lines
\* 94-103), then the originator's continuation (lines 110-120) and the
\* reactions of every attached instance (lines 62-71).
Settle(s, r, out) ==
  LET q == s.requests[r]
      st == IF out.name = "ok" THEN "ok"
            ELSE IF out.name = "AbortError" THEN "aborted" ELSE "failed"
      c1 == IF out.name = "ok"
            THEN CommitResult(s.cache, q.url, q.method = "GET", out.val)
            ELSE s.cache
      React(j) ==
        LET h0 == s.hooks[j]
            h1 == IF j = q.owner THEN OwnerSettle(h0, out) ELSE h0
        IN IF j \in q.waiters THEN WaiterSettle(h1, out) ELSE h1
  IN [cache |-> c1,
      inFlightMap |-> FinallyDelete(s.inFlightMap, q),
      hooks |-> [j \in Hooks |-> React(j)],
      \* a settled promise has run its reactions and its signal is spent
      requests |-> [s.requests EXCEPT
                      ![r].state = st,
                      ![r].waiters = {},
                      ![r].aborted = FALSE,
                      ![r].stranded = IF out.name = "AbortError"
                                      THEN Stranded(s, r) ELSE {}]]

\* lines 78-108: runFetch up to the await, for the request r that the
\* enclosing fetchData call created
RunFetch(s, r) ==
  LET q == s.requests[r]
      i == q.owner
      h1 == SetError(SetIsLoading(s.hooks[i], TRUE), NoError)
      h2 == IF q.method = "GET" THEN [h1 EXCEPT !.didSetInFlight = TRUE] ELSE h1
      s1 == [s EXCEPT
               !.hooks[i] = h2,
               !.requests[r].state = "inflight",
               !.inFlightMap = IF q.method = "GET"
                               THEN [s.inFlightMap EXCEPT ![q.url] = r]
                               ELSE s.inFlightMap]
  IN \* fetch with an already aborted signal rejects at once
     IF q.aborted THEN Settle(s1, r, AbortOutcome) ELSE s1

\* clearTimeout(timeoutRef.current): the scheduled runFetch never runs
ClearTimer(s, i) ==
  LET t == s.hooks[i].timeoutRef
  IN IF t = 0 THEN s
     ELSE [s EXCEPT !.requests[t] = [FreeRequest EXCEPT !.state = "cleared",
                                                        !.url = s.requests[t].url,
                                                        !.method = s.requests[t].method,
                                                        !.owner = i],
                    !.hooks[i].timeoutRef = 0]

\* the GET requests for u that are scheduled or in flight and not cancelled
Rivals(s, u) ==
  {p \in ReqIds : Unsettled(s.requests[p]) /\ ~s.requests[p].aborted
                  /\ s.requests[p].method = "GET" /\ s.requests[p].url = u}

\* the cache hit with the setIsLoading(false) of line 55 left out
CacheHit_KeepsLoading(h, v) == SetError(SetData(h, v), NoError)

\* lines 54-56: the cache hit
CacheHit(h, v) == SetError(SetIsLoading(SetData(h, v), FALSE), NoError)

\* does fetchData of instance i go past the early returns and create a
\* controller (line 75)?
NeedsRequest(s, i) ==
  LET h == s.hooks[i]
  IN /\ h.url # EmptyUrl
     /\ ~(h.method = "GET" /\ CacheHas(s.cache, h.url))
     /\ ~(h.method = "GET" /\ s.inFlightMap[h.url] # 0)

\* lines 36-130: fetchData of instance i
FetchData(s, i) ==
  LET h == s.hooks[i]
      url == h.url
      shouldCache == h.method = "GET"
  IN IF url = EmptyUrl THEN s
     ELSE IF shouldCache /\ CacheHas(s.cache, url)
     THEN [s EXCEPT !.hooks[i] = CacheHit(h, CacheGet(s.cache, url))]
     ELSE IF shouldCache /\ s.inFlightMap[url] # 0
     THEN LET p == s.inFlightMap[url]
              s1 == [s EXCEPT !.hooks[i] = SetIsLoading(h, TRUE),
                              !.requests[p].waiters = @ \cup {i}]
          IN s1
     ELSE LET r == NextId(s.requests)
              s1 == [s EXCEPT
                       !.hooks[i].controller = r,
                       !.requests[r] = [state |-> "created", url |-> url,
                                        method |-> h.method, owner |-> i,
                                        waiters |-> {}, aborted |-> FALSE,
                                        during |-> IF shouldCache THEN Rivals(s, url) ELSE {},
                                        stranded |-> {}]]
              s2 == ClearTimer(s1, i)
          IN IF h.debounce > 0
             THEN [s2 EXCEPT !.hooks[i].timeoutRef = r,
                             !.requests[r].state = "delayed"]
             ELSE RunFetch(s2, r)

\* lines 134-139: the effect's cleanup, for the url the effect was run with
Cleanup(s, i) ==
  LET h == s.hooks[i]
      c == h.controller
      \* abort() of a controller whose call has settled changes nothing
      s1 == IF c # 0 /\ Unsettled(s.requests[c])
            THEN [s EXCEPT !.requests[c].aborted = TRUE] ELSE s
      s2 == ClearTimer(s1, i)
  IN IF h.didSetInFlight /\ h.url # EmptyUrl
     THEN [s2 EXCEPT !.inFlightMap[h.url] = 0]
     ELSE s2

\* the call that controller.abort() of instance i rejects, 0 if none
AbortedCall(s, i) ==
  LET c == s.hooks[i].controller
  IN IF c # 0 /\ s.requests[c].state = "inflight" THEN c ELSE 0

\* the reactions of the call rejected by abort(), run after the task
AfterAbort(s, c) ==
  IF c # 0 /\ s.requests[c].state = "inflight" THEN Settle(s, c, AbortOutcome) ELSE s


\* ---- history: what the last fetchData call found and did ----
NoExec == [hook |-> 0, url |-> EmptyUrl, method |-> "GET", debounce |-> 0,
           preCached |-> FALSE, preSucceeded |-> "no", preInvalid |-> "no",
           created |-> 0, transports |-> 0]

\* s0 is the state in which instance i calls fetchData, s1 the state it leaves
ExecInfo(s0, s1, i) ==
  LET h == s0.hooks[i]
      n == NextId(s0.requests)
      made == IF NextId(s1.requests) > n THEN n ELSE 0
  IN [hook |-> i, url |-> h.url, method |-> h.method, debounce |-> h.debounce,
      preCached |-> h.url # EmptyUrl /\ CacheHas(s0.cache, h.url),
      preSucceeded |-> IF h.url # EmptyUrl THEN succeeded[h.url] ELSE "no",
      preInvalid |-> IF h.url # EmptyUrl THEN invalid[h.url] ELSE "no",
      created |-> made,
      transports |-> Cardinality({r \in ReqIds : Transported(s1.requests[r])
                                                  /\ ~Transported(s0.requests[r])})]

\* invalid[u] = "clean": invalidateURL(u) was called and since then no GET
\* execute with debounce 0 was invoked for u, no delayed call for u was
\* dispatched and no call for u resolved or failed; "dirty": one of the
\* latter two happened
InvalidAfterExec(h) ==
  IF h.url # EmptyUrl /\ h.method = "GET" /\ h.debounce = 0
  THEN [invalid EXCEPT ![h.url] = "no"] ELSE invalid

InvalidAfterCall(q) ==
  IF q.method = "GET" /\ invalid[q.url] = "clean"
  THEN [invalid EXCEPT ![q.url] = "dirty"] ELSE invalid

\* succeeded[u]: "no" until a GET for u completes successfully after the
\* last invalidateURL(u) or clearCache; then "kept" while the cache holds
\* an entry for u, "empty" when the body was falsy and nothing was stored,
\* "evicted" once the entry was removed to make room
SucceededAfter(q, c1) ==
  [u \in Urls |->
     IF q.method = "GET" /\ q.url = u
     THEN (IF CacheHas(c1, u) THEN "kept"
           ELSE IF succeeded[u] = "evicted" THEN "evicted" ELSE "empty")
     ELSE IF succeeded[u] = "kept" /\ ~CacheHas(c1, u) THEN "evicted"
     ELSE succeeded[u]]

\* insertedAt[u]: 0 while the cache has no key u, else the rank of the
\* moment cache.set created the key among the keys present (1 = earliest)
StampDelete(t, k) ==
  [u \in Urls |-> IF u = k THEN 0
                  ELSE IF t[k] # 0 /\ t[u] > t[k] THEN t[u] - 1 ELSE t[u]]

StampSet(t, u) ==
  IF t[u] # 0 THEN t
  ELSE [t EXCEPT ![u] = 1 + Cardinality({v \in Urls : t[v] # 0})]

\* the cache.delete and cache.set calls of lines 95-101 on cache c
StampCommit(t, c, u, shouldCache, result) ==
  LET gone == CacheKeys(c) \ CacheKeys(EvictIfFull(c))
      t1 == IF gone = {} THEN t ELSE StampDelete(t, CHOOSE k \in gone : TRUE)
  IN IF shouldCache /\ result # Falsy /\ result # Null THEN StampSet(t1, u)
     ELSE t

Commit(s) ==
  /\ cache' = s.cache
  /\ inFlightMap' = s.inFlightMap
  /\ hooks' = s.hooks
  /\ requests' = s.requests

\* URLs are interchangeable: a URL that no instance, request, cache entry or
\* invalidation has named yet is taken in index order
UsedUrls ==
  {hooks[i].url : i \in Hooks} \cup {requests[r].url : r \in ReqIds}
  \cup CacheKeys(cache)
  \cup {u \in Urls : invalid[u] # "no" \/ succeeded[u] # "no"}

UrlChoices == {u \in Urls : \A v \in Urls : v < u => v \in UsedUrls}

\* one more operation of a consumer
Op == ops < MaxOps /\ ops' = ops + 1

\* fetchData is only called when a request id is left for it
CanExec(s, i) == NeedsRequest(s, i) => NextId(s.requests) <= MaxRequests

Init ==
  /\ cache = <<>>
  /\ inFlightMap = [u \in Urls |-> 0]
  /\ hooks = [i \in Hooks |-> IdleHook]
  /\ requests = [r \in ReqIds |-> FreeRequest]
  /\ succeeded = [u \in Urls |-> "no"]
  /\ invalid = [u \in Urls |-> "no"]
  /\ lastExec = NoExec
  /\ insertedAt = [u \in Urls |-> 0]
  /\ ops = 0

\* lines 17-34, 132-133: first render and the effect that calls fetchData.
\* Instances are interchangeable, so they are mounted in index order.
Mount(i, u, m, d) ==
  /\ Op
  /\ hooks[i].status = "idle"
  /\ \A j \in Hooks : j < i => hooks[j].status # "idle"
  /\ LET s0 == [State EXCEPT !.hooks[i] =
                  [IdleHook EXCEPT !.status = "mounted", !.url = u,
                                   !.method = m, !.debounce = d]]
         s1 == FetchData(s0, i)
     IN /\ CanExec(s0, i)
        /\ Commit(s1)
        /\ lastExec' = ExecInfo(s0, s1, i)
        /\ invalid' = InvalidAfterExec(s0.hooks[i])
        /\ UNCHANGED <<succeeded, insertedAt>>

\* line 142: refetch is fetchData of the current render
Refetch(i) ==
  /\ Op
  /\ hooks[i].status = "mounted"
  /\ LET s1 == FetchData(State, i)
     IN /\ CanExec(State, i)
        /\ Commit(s1)
        /\ lastExec' = ExecInfo(State, s1, i)
        /\ invalid' = InvalidAfterExec(hooks[i])
        /\ UNCHANGED <<succeeded, insertedAt>>

\* lines 26-34, 132-140: url or options change: the cleanup of the old effect,
\* the new effect, then the reactions of the call the cleanup aborted. With
\* u, m and d unchanged it is options.headers or options.body that changed.
ChangeInput(i, u, m, d) ==
  /\ Op
  /\ hooks[i].status = "mounted"
  /\ LET c == AbortedCall(State, i)
         s0 == [Cleanup(State, i) EXCEPT !.hooks[i].url = u,
                                         !.hooks[i].method = m,
                                         !.hooks[i].debounce = d]
         s1 == FetchData(s0, i)
     IN /\ CanExec(s0, i)
        /\ Commit(AfterAbort(s1, c))
        /\ lastExec' = ExecInfo(s0, s1, i)
        /\ invalid' = InvalidAfterExec(s0.hooks[i])
        /\ UNCHANGED <<succeeded, insertedAt>>

\* lines 134-139: unmount: the cleanup, then the reactions of the aborted call
Unmount(i) ==
  /\ Op
  /\ hooks[i].status = "mounted"
  /\ LET c == AbortedCall(State, i)
         \* React drops the state and the refs of an unmounted instance
         s0 == [Cleanup(State, i) EXCEPT
                  !.hooks[i] = [IdleHook EXCEPT !.status = "unmounted"]]
     IN /\ Commit(AfterAbort(s0, c))
        /\ lastExec' = NoExec
        /\ UNCHANGED <<succeeded, invalid, insertedAt>>

\* line 126: the debounce timer of instance i fires and runs runFetch
TimerFire(i) ==
  /\ hooks[i].timeoutRef # 0
  /\ LET t == hooks[i].timeoutRef
     IN /\ Commit(RunFetch([State EXCEPT !.hooks[i].timeoutRef = 0], t))
        /\ invalid' = InvalidAfterCall(requests[t])
        /\ lastExec' = NoExec
        /\ UNCHANGED <<succeeded, insertedAt, ops>>

\* lines 88-103, 111-112: the response of call r arrives with status ok and
\* a JSON body, truthy or falsy
ResolveFetch(r, truthy) ==
  /\ requests[r].state = "inflight"
  /\ LET s1 == Settle(State, r, OkOutcome(IF truthy THEN r ELSE Falsy))
     IN /\ Commit(s1)
        /\ succeeded' = SucceededAfter(requests[r], s1.cache)
        /\ invalid' = InvalidAfterCall(requests[r])
        /\ insertedAt' = StampCommit(insertedAt, cache, requests[r].url,
                                     requests[r].method = "GET",
                                     IF truthy THEN r ELSE Falsy)
        /\ lastExec' = NoExec
        /\ UNCHANGED ops

\* lines 89-91, 113-116: call r fails (transport, status or decode)
RejectFetch(r) ==
  /\ requests[r].state = "inflight"
  /\ Commit(Settle(State, r, ErrorOutcome(HttpError)))
  /\ invalid' = InvalidAfterCall(requests[r])
  /\ lastExec' = NoExec
  /\ UNCHANGED <<succeeded, insertedAt, ops>>

\* invalidateURL that forgets the registry
MapDelete_Forgotten(m, u) == m

\* line 14: inFlightMap.delete(url)
MapDelete(m, u) == [m EXCEPT ![u] = 0]

\* lines 12-15
InvalidateURL(u) ==
  /\ Op
  /\ cache' = CacheDelete(cache, u)
  /\ inFlightMap' = MapDelete(inFlightMap, u)
  /\ succeeded' = [succeeded EXCEPT ![u] = "no"]
  /\ invalid' = [invalid EXCEPT ![u] = "clean"]
  /\ insertedAt' = StampDelete(insertedAt, u)
  /\ lastExec' = NoExec
  /\ UNCHANGED <<hooks, requests>>

\* lines 7-10
ClearCache ==
  /\ Op
  /\ cache' = <<>>
  /\ inFlightMap' = [u \in Urls |-> 0]
  /\ succeeded' = [u \in Urls |-> "no"]
  /\ insertedAt' = [u \in Urls |-> 0]
  /\ lastExec' = NoExec
  /\ UNCHANGED <<hooks, requests, invalid>>

Next ==
  \/ \E i \in Hooks, u \in UrlChoices \cup {EmptyUrl}, m \in Methods, d \in Debounces :
       Mount(i, u, m, d)
  \/ \E i \in Hooks : Refetch(i)
  \/ \E i \in Hooks, u \in UrlChoices, m \in Methods, d \in Debounces :
       ChangeInput(i, u, m, d)
  \/ \E i \in Hooks : Unmount(i)
  \/ \E i \in Hooks : TimerFire(i)
  \/ \E r \in ReqIds, truthy \in BOOLEAN : ResolveFetch(r, truthy)
  \/ \E r \in ReqIds : RejectFetch(r)
  \/ \E u \in UrlChoices : InvalidateURL(u)
  \/ ClearCache

Spec == Init /\ [][Next]_vars

\* the same start with LiveOps operations of the consumers left
LiveInit ==
  /\ cache = <<>>
  /\ inFlightMap = [u \in Urls |-> 0]
  /\ hooks = [i \in Hooks |-> IdleHook]
  /\ requests = [r \in ReqIds |-> FreeRequest]
  /\ succeeded = [u \in Urls |-> "no"]
  /\ invalid = [u \in Urls |-> "no"]
  /\ lastExec = NoExec
  /\ insertedAt = [u \in Urls |-> 0]
  /\ ops = MaxOps - LiveOps

\* call r resolves or fails
SettleCall(r) == (\E truthy \in BOOLEAN : ResolveFetch(r, truthy)) \/ RejectFetch(r)

\* every dispatched call settles in the end and every timer that is not
\* cleared fires in the end
LiveSpec ==
  /\ LiveInit /\ [][Next]_vars
  /\ \A r \in ReqIds : WF_vars(SettleCall(r))
  /\ \A i \in Hooks : WF_vars(TimerFire(i))


\* ------------------------------------------------------------------------
\* Properties
\* ------------------------------------------------------------------------

\* C1: waterfall protection. Of two GET executes for the same URL, the
\* second invoked while the request of the first was scheduled or in flight,
\* at most one invokes the transport (requests[r].during are the requests
\* that were pending for the URL when the execute that created r was invoked).
C1_OneTransportPerUrl ==
  \A r \in ReqIds : \A p \in requests[r].during :
     ~(Transported(requests[r]) /\ Transported(requests[p]))

\* the consequent of C2: the last execute invoked no transport and left the
\* instance with the cached value, no error and isLoading false
ServedFromCache ==
  LET h == hooks[lastExec.hook]
  IN /\ lastExec.created = 0
     /\ lastExec.transports = 0
     /\ CacheHas(cache, lastExec.url)
     /\ h.data = CacheGet(cache, lastExec.url)
     /\ h.error = NoError
     /\ ~h.isLoading

\* C2 as stated: after a successful GET for u, and with no invalidateURL(u)
\* or clearCache since, every execute for u is served from the cache.
C2_HitAfterAnySuccess ==
  (lastExec.hook # 0 /\ lastExec.method = "GET" /\ lastExec.preSucceeded # "no")
     => ServedFromCache

\* C2 amended: after a successful GET for u with a truthy body, and with no
\* invalidateURL(u), clearCache or eviction of u's entry since, every execute
\* for u is served from the cache inside the call.
C2_HitWhileKept ==
  (lastExec.hook # 0 /\ lastExec.method = "GET" /\ lastExec.preSucceeded = "kept")
     => ServedFromCache

\* a second instance mounts on a URL whose result is cached
C2_Witness ==
  /\ lastExec.hook = 2 /\ lastExec.method = "GET"
  /\ lastExec.preSucceeded = "kept"
  /\ hooks[2].data \in ReqIds

\* C3: for every URL at most one GET network call is unsettled.
C3_OneCallInFlightPerUrl ==
  \A u \in Urls :
     Cardinality({r \in ReqIds : requests[r].state = "inflight"
                                 /\ requests[r].method = "GET"
                                 /\ requests[r].url = u}) <= 1

\* C4: no instance attached to a shared GET call is left with the outcome of
\* the originator's cancellation.
C4_AttachedSeeRealOutcome ==
  \A r \in ReqIds : requests[r].stranded = {}

\* C5: after every execute of an instance with debounce > 0, a delayed
\* invocation that is still pending is the one this execute scheduled.
C5_TrailingDebounce ==
  (lastExec.hook # 0 /\ lastExec.debounce > 0
     /\ hooks[lastExec.hook].timeoutRef # 0)
     => hooks[lastExec.hook].timeoutRef = lastExec.created

\* C6: no state setter of an instance is invoked after its unmount.
C6_NoSetterAfterUnmount ==
  \A i \in Hooks : ~hooks[i].lateSet

\* C7: a mounted instance has isLoading true while a call for its current
\* input, started by it or attached to by it, is in flight.
C7_LoadingWhileInFlight ==
  \A i \in Hooks : \A r \in ReqIds :
     (/\ hooks[i].status = "mounted"
      /\ requests[r].state = "inflight"
      /\ requests[r].url = hooks[i].url
      /\ requests[r].method = hooks[i].method
      /\ (requests[r].owner = i \/ i \in requests[r].waiters))
     => hooks[i].isLoading

\* C8: the message of an abort never becomes the error of an instance.
C8_AbortNeverAnError ==
  \A i \in Hooks : hooks[i].error # AbortMsg

\* a call was aborted while another mounted instance was attached to it
C8_Witness ==
  \E r \in ReqIds :
     /\ requests[r].state = "aborted"
     /\ \E j \in requests[r].stranded : hooks[j].error = NoError

C10_CacheBounded ==
  Len(cache) <= MAX_CACHE_SIZE

\* the cache is full after an entry was evicted to make room
C10_Witness ==
  /\ Len(cache) = MAX_CACHE_SIZE
  /\ \E u \in Urls : succeeded[u] = "evicted"


\* C11: FIFO eviction. When a GET result for a URL that is not in the cache
\* is stored while the cache holds MAX_CACHE_SIZE entries, exactly one key
\* leaves the cache and no key present was set earlier than it; an execute
\* served from the cache changes neither the cache nor the order of its keys.
C11_FifoEviction ==
  [][/\ \A r \in ReqIds :
          LET u == requests[r].url
              gone == CacheKeys(cache) \ CacheKeys(cache')
          IN (/\ requests[r].state = "inflight" /\ requests'[r].state = "ok"
              /\ requests[r].method = "GET"
              /\ ~CacheHas(cache, u) /\ CacheHas(cache', u)
              /\ Len(cache) = MAX_CACHE_SIZE)
             => /\ Cardinality(gone) = 1
                /\ CacheKeys(cache') = (CacheKeys(cache) \ gone) \cup {u}
                /\ \A k \in gone : \A v \in CacheKeys(cache) :
                      insertedAt[k] <= insertedAt[v]
     /\ (ops' # ops /\ lastExec'.method = "GET" /\ lastExec'.preCached)
          => (cache' = cache /\ insertedAt' = insertedAt)
    ]_vars

\* a cache served an execute after it was full and had evicted an entry
C11_Witness ==
  /\ lastExec.method = "GET" /\ lastExec.preCached
  /\ Len(cache) = MAX_CACHE_SIZE
  /\ \E u \in Urls : succeeded[u] = "evicted" /\ insertedAt[u] = 0

\* ---- steps, told from the state before and after ----
Settled == {"ok", "failed", "aborted"}

\* instance i is unmounted, or changes input, or executes again
ActsIn(i) ==
  /\ hooks[i].status = "mounted"
  /\ ops' # ops
  /\ (hooks'[i].status = "unmounted" \/ lastExec'.hook = i)

\* call r resolves or fails (and no consumer acts)
SettlesIn(r) ==
  /\ ops' = ops
  /\ requests[r].state = "inflight"
  /\ requests'[r].state \in Settled

\* no registry entry is removed or replaced
EntriesStay == \A u \in Urls : inFlightMap[u] # 0 => inFlightMap'[u] = inFlightMap[u]

\* C12: non-GET isolation. An execute with a method other than GET creates
\* its own request and leaves the cache and the registry as they are when
\* it is invoked, when its call settles and when the instance that issued
\* it is torn down or changes input.
C12_NonGetIsolation ==
  [][/\ \A i \in Hooks :
          (ActsIn(i) /\ hooks[i].method = "POST")
             => (cache' = cache /\ EntriesStay)
     /\ \A i \in Hooks :
          (lastExec'.hook = i /\ lastExec'.method = "POST" /\ ops' # ops
             /\ (hooks[i].status = "idle" \/ hooks[i].method = "POST"))
             => (/\ inFlightMap' = inFlightMap
                 /\ lastExec'.url # EmptyUrl => lastExec'.created # 0)
     /\ \A r \in ReqIds :
          (SettlesIn(r) /\ requests[r].method = "POST")
             => (cache' = cache /\ inFlightMap' = inFlightMap)
    ]_vars

\* C13: the teardown or input change of an instance removes no registry
\* entry that the call of another instance registered.
C13_TeardownKeepsOthersEntries ==
  [][\A i \in Hooks : \A u \in Urls :
        (ActsIn(i) /\ inFlightMap[u] # 0 /\ requests[inFlightMap[u]].owner # i)
           => inFlightMap'[u] = inFlightMap[u]
    ]_vars

\* C14: when a call settles (resolved, failed or aborted) the registry holds
\* no entry for it afterwards, and a call that resolves or fails leaves the
\* entry of another call in place.
C14_NoStaleEntries ==
  [][\A r \in ReqIds : \A u \in Urls :
        /\ (requests[r].state = "inflight" /\ requests'[r].state \in Settled)
             => inFlightMap'[u] # r
        /\ (SettlesIn(r) /\ inFlightMap[u] # r)
             => inFlightMap'[u] = inFlightMap[u]
    ]_vars

\* C15: a debounce timer that fires for a GET URL which is cached or in
\* flight at that moment invokes no transport.
C15_ChecksWhenTimerFires ==
  [][\A r \in ReqIds :
        (/\ requests[r].state = "delayed"
         /\ requests[r].method = "GET"
         /\ (CacheHas(cache, requests[r].url) \/ inFlightMap[requests[r].url] # 0))
        => ~Transported(requests'[r])
    ]_vars

\* C16: no URL has an entry in the registry and in the cache at once.
C16_RegistryXorCache ==
  \A u \in Urls : ~(inFlightMap[u] # 0 /\ CacheHas(cache, u))

\* the mounted instances that a settling call r reports to
Audience(r) ==
  {j \in requests[r].waiters \cup {requests[r].owner} : hooks'[j].status = "mounted"}

\* C17: when a GET call that other instances are attached to resolves or
\* fails, its originator and every attached instance end with isLoading
\* false and with the same outcome: the call's result as data and no error,
\* or the failure's message as error.
C17_SameOutcomeForAll ==
  [][\A r \in ReqIds :
        (/\ SettlesIn(r) /\ requests'[r].state \in {"ok", "failed"}
         /\ requests[r].method = "GET"
         /\ requests[r].waiters \ {requests[r].owner} # {})
        => /\ \A j \in Audience(r) : ~hooks'[j].isLoading
           /\ requests'[r].state = "failed"
                => \A j \in Audience(r) : hooks'[j].error = HttpError
           /\ requests'[r].state = "ok"
                => \E v \in {r, Falsy} : \A j \in Audience(r) :
                      hooks'[j].data = v /\ hooks'[j].error = NoError
    ]_vars

\* the unsettled requests that instance j originated or is attached to
Pending(j) ==
  {p \in ReqIds : Unsettled(requests[p])
                  /\ (requests[p].owner = j \/ j \in requests[p].waiters)}

\* call r is not the call of the latest execute of instance j: j attached to
\* it under another URL or method, or has created a controller since
Superseded(j, r) ==
  \/ /\ j \in requests[r].waiters
     /\ (hooks[j].url # requests[r].url \/ hooks[j].method # requests[r].method)
  \/ /\ j = requests[r].owner
     /\ j \notin requests[r].waiters
     /\ hooks[j].controller # r

\* C19: latest request wins. When the call of an earlier execute of a
\* mounted instance resolves or fails after every later request of that
\* instance has settled, the instance's data and error stay as they are.
C19_LatestRequestWins ==
  [][\A r \in ReqIds : \A j \in Hooks :
        (/\ SettlesIn(r) /\ requests'[r].state \in {"ok", "failed"}
         /\ hooks[j].status = "mounted" /\ hooks[j].url # EmptyUrl
         /\ Superseded(j, r)
         /\ Pending(j) = {r})
        => (hooks'[j].data = hooks[j].data /\ hooks'[j].error = hooks[j].error)
    ]_vars

\* C20: invalidation is not undone. A call for u that was dispatched before
\* invalidateURL(u) does not store its result in the cache when it resolves
\* after the invalidation.
C20_InvalidationNotUndone ==
  [][\A r \in ReqIds :
        (/\ SettlesIn(r)
         /\ requests[r].method = "GET"
         /\ invalid[requests[r].url] = "clean")
        => ~CacheHas(cache', requests[r].url)
    ]_vars

====
